---- MODULE Spec2Model ----
(***************************************************************************)
(* Model of the fingerprint pipeline: the byte scalar utilities            *)
(* (lib/hash.ts), the parameter mapper (lib/parameterMapper.ts), the       *)
(* useFingerprint hooks (App.tsx and hooks/useFingerprint.ts) and the cell *)
(* generator of the grid renderer (components/FingerprintSquares.tsx).     *)
(*                                                                         *)
(* Numbers.  The code computes in IEEE-754 doubles.  Every literal of the  *)
(* mapper is a decimal with at most two fractional digits and every float  *)
(* axis is min + (byte/255)*(max-min), so every value the mapper produces  *)
(* is an exact multiple of 1/25500.  A float is modelled as the integer    *)
(* count of such units (Dec(h) is h hundredths); the arithmetic is exact   *)
(* rational arithmetic, the rounding of doubles is not modelled.           *)
(***************************************************************************)
EXTENDS Integers, Sequences, FiniteSets, TLC

\* ------------------------------------------------------------------------
\* State

VARIABLES
  call,      \* a call of a byte scalar utility: its arguments and its result
  digest,    \* the 32 bytes handed to the mapper
  mapped,    \* the configuration the mapper returned for digest, or null
  twin,      \* a second digest handed to the mapper, to compare with digest
  mappedTwin, \* the configuration the mapper returned for twin, or null
  impl,      \* which useFingerprint: "App" (App.tsx) or "hooks" (hooks/useFingerprint.ts)
  phase,     \* "new" (rendered, effect not yet run), "mounted", "unmounted"
  input,     \* the hook's input prop
  config,    \* the hook's config state
  effects,   \* effects run so far, by id: the closure's input, its cancelled flag, its promise
  live,      \* id of the effect whose cleanup React holds, 0 if none
  lastSet,   \* history: the last setConfig call of a promise callback: the effect
             \* (by) and its input (for), the live effect and the hook's input then
  mapLog,    \* history: every call of mapHashToConfig made by the hook
  gcfg,      \* the config prop of the renderer
  cell,      \* the cell of the grid being rendered: its cx and cy
  sine,      \* Math.sin: its value at each argument the renderer passes it
  renders,   \* history: the element each render returned for the cell
  hcall,     \* a call of cellHash: its arguments and its result
  inputValue,     \* App: the text of the input field
  debouncedInput, \* App: the input handed to useFingerprint and to the favicon effect
  timer,          \* App: the debounce timer: whether it is pending, and its closure's inputValue
  held,           \* history: the values inputValue has held, in order
  logoPixels,     \* App: the pixels shown in the logo corner, or null
  logoSource,     \* App: "auto", "manual" or "null"
  rawAutoPixels,  \* App: the favicon's pixels as fetched, or null
  faviconLoading, \* App: the spinner flag
  fetches,        \* favicon effects that started a fetch, by id: url, the closure's
                  \* logoSource, its cancelled flag, its promise
  liveFetch,      \* id of the favicon effect whose cleanup React holds, 0 if none
  inverted,       \* LogoUpload: the invert flag
  fileRef,        \* LogoUpload: fileRef.current, a file or null
  pixelations,    \* pixelateLogo calls awaited by handleFile and toggleInvert, by id
  hex,            \* useHashHex: the hex state
  uniforms,       \* Fingerprint: the shader uniforms, or null before the first render
  shade,          \* the fragment shader: the pattern function and border branch it ran
  fav,            \* a call of fetchFaviconPixels: its argument, position and result
  attempts        \* the tryFaviconUrl calls of fav, in order

vars == << call, digest, mapped, twin, mappedTwin, impl, phase, input,
           config, effects, live, lastSet, mapLog, gcfg, cell, sine, renders,
           hcall, inputValue, debouncedInput, timer, held, logoPixels,
           logoSource, rawAutoPixels, faviconLoading, fetches, liveFetch,
           inverted, fileRef, pixelations, hex, uniforms, shade, fav,
           attempts >>
utilVars == << call >>
mapVars == << digest, mapped, twin, mappedTwin >>
hookVars == << impl, phase, input, config, effects, live, lastSet, mapLog >>
gridVars == << gcfg, cell, sine, renders, hcall >>
appVars == << inputValue, debouncedInput, timer, held, logoPixels, logoSource,
              rawAutoPixels, faviconLoading, fetches, liveFetch, inverted,
              fileRef, pixelations >>
hexVars == << hex >>
shaderVars == << uniforms, shade >>
favVars == << fav, attempts >>

\* ------------------------------------------------------------------------
\* Fixed-point representation of the floats of lib/hash.ts

ByteMax == 255
ByteCount == 256
Bytes == 0..ByteMax

\* h hundredths (the decimal literal h/100) in units of 1/(100*255)
Dec(h) == h * ByteMax
One == Dec(100)

\* Math.round (round half up) of a non-negative fixed-point value
Round(x) == (x + (One \div 2)) \div One

\* ------------------------------------------------------------------------
\* lib/hash.ts

\* min + (byte / 255) * (max - min); max - min is a whole number of
\* hundredths, so (max - min) / 255 is exact
\* faulty variants: interpolating down from max; scaling max instead of the span
byteToFloatInverted(byte, min, max) == max - byte * ((max - min) \div ByteMax)
byteToFloatNoSpan(byte, min, max) == min + byte * (max \div ByteMax)
byteToFloat(byte, min, max) == min + byte * ((max - min) \div ByteMax)

\* Math.floor((byte / 256) * count): byte / 256 and its product with a
\* count below 2^45 are exact in doubles, so this is integer division
\* faulty variants: dividing by 255; rounding instead of flooring
byteToIndexBy255(byte, count) == (byte * count) \div ByteMax
byteToIndexRound(byte, count) == (byte * count + ByteCount \div 2) \div ByteCount
byteToIndex(byte, count) == (byte * count) \div ByteCount

\* ------------------------------------------------------------------------
\* lib/parameterMapper.ts

GEOMETRY_CLASSES ==
  << "sphere", "torus", "icosahedron", "octahedron",
     "torusKnot", "dodecahedron", "tetrahedron", "cone" >>

PATTERN_TYPES ==
  << "voronoi", "noise", "rings", "grid",
     "hexagonal", "spiral", "stripes", "dots" >>

BORDER_STYLES == << "none", "thin", "thick", "glow" >>

\* arr[i] of a JavaScript array (0-based): undefined outside 0..length-1
\* faulty variant: 1-based indexing
AtOneBased(arr, i) == IF i \in 1..Len(arr) THEN arr[i] ELSE "undefined"
At(arr, i) == IF i \in 0..(Len(arr) - 1) THEN arr[i + 1] ELSE "undefined"

\* Math.sin / Math.cos of an angle given in units of pi/255: library
\* functions, kept as terms
Sin(a) == [fn |-> "sin", angle |-> a]
Cos(a) == [fn |-> "cos", angle |-> a]

\* bytes is a function 0..31 -> 0..255 (a Uint8Array of length 32)

\* faulty variants: a hue that drifts with a module-level call counter; a hue
\* wrapped into [0, 360)
primaryHueCounting(bytes) ==
  byteToFloat(bytes[0], Dec(0), Dec(36000)) + Dec(Len(mapLog))
primaryHueWrapped(bytes) == byteToFloat(bytes[0], Dec(0), Dec(36000)) % Dec(36000)
primaryHue(bytes) == byteToFloat(bytes[0], Dec(0), Dec(36000))

\* faulty variant: a secondary hue not offset from the primary one
secondaryHueFree(bytes) == byteToFloat(bytes[3], Dec(0), Dec(36000)) % Dec(36000)
secondaryHue(bytes) ==
  (primaryHue(bytes) + byteToFloat(bytes[3], Dec(6000), Dec(30000))) % Dec(36000)

\* faulty variant: the sign taken from byte 14
rotationSpeedBy14(bytes) ==
  (IF bytes[14] < 128 THEN 1 ELSE -1) * byteToFloat(bytes[14], Dec(10), Dec(80))
rotationSpeed(bytes) ==
  LET rotationMagnitude == byteToFloat(bytes[14], Dec(10), Dec(80))
      rotationSign == IF bytes[15] < 128 THEN 1 ELSE -1
  IN rotationSign * rotationMagnitude

\* byteToFloat(bytes[15], 0, 2*pi) is bytes[15] * 2 units of pi/255, and
\* axisAngle * 0.5 is bytes[15] units
\* faulty variant: the angle taken from byte 17, which no axis reads
rotationAxisBy17(bytes) ==
  LET axisAngle == bytes[17] * 2
  IN << Sin(axisAngle), Cos(axisAngle), Sin(bytes[17]) >>
rotationAxis(bytes) ==
  LET axisAngle == bytes[15] * 2
  IN << Sin(axisAngle), Cos(axisAngle), Sin(bytes[15]) >>

mapHashToConfig(bytes) ==
  [ primaryHue |-> primaryHue(bytes),
    primarySaturation |-> byteToFloat(bytes[1], Dec(50), Dec(100)),
    primaryLightness |-> byteToFloat(bytes[2], Dec(35), Dec(65)),
    secondaryHue |-> secondaryHue(bytes),
    secondaryLightness |-> byteToFloat(bytes[4], Dec(30), Dec(70)),
    geometryClass |->
      At(GEOMETRY_CLASSES, byteToIndex(bytes[6], Len(GEOMETRY_CLASSES))),
    patternType |->
      At(PATTERN_TYPES, byteToIndex(bytes[8], Len(PATTERN_TYPES))),
    patternFrequency |-> Round(byteToFloat(bytes[10], Dec(100), Dec(1600))),
    patternDensity |-> byteToFloat(bytes[11], Dec(10), Dec(100)),
    borderStyle |->
      At(BORDER_STYLES, byteToIndex(bytes[12], Len(BORDER_STYLES))),
    borderWidth |-> byteToFloat(bytes[13], Dec(1), Dec(8)),
    rotationSpeed |-> rotationSpeed(bytes),
    rotationAxis |-> rotationAxis(bytes),
    particleDensity |-> byteToFloat(bytes[16], Dec(0), Dec(100)),
    displacementAmplitude |-> byteToFloat(bytes[18], Dec(0), Dec(40)),
    displacementFrequency |-> Round(byteToFloat(bytes[19], Dec(100), Dec(800))),
    pulseRate |-> byteToFloat(bytes[20], Dec(20), Dec(200)),
    shimmerIntensity |-> byteToFloat(bytes[21], Dec(0), Dec(60)),
    colorShift |-> byteToFloat(bytes[22], Dec(0), Dec(30)),
    breatheScale |-> byteToFloat(bytes[23], Dec(0), Dec(15)) ]

\* JavaScript null
null == [null |-> TRUE]

\* ------------------------------------------------------------------------
\* Digest provider: crypto.subtle.digest('SHA-256', utf8(input)), by its
\* values on the inputs of the model.  Strings are sequences of characters.

Sa == << "a" >>
Sb == << "b" >>
Ssa == << " ", "a" >>
Shello == << "h", "e", "l", "l", "o", " ", "w", "o", "r", "l", "d" >>

\* a Uint8Array from its elements: index 0..length-1
U8(seq) == [i \in 0..(Len(seq) - 1) |-> seq[i + 1]]

hashString(s) ==
  CASE s = Sa -> U8(<< 202, 151, 129, 18, 202, 27, 189, 202, 250, 194, 49,
                       179, 154, 35, 220, 77, 167, 134, 239, 248, 20, 124,
                       78, 114, 185, 128, 119, 133, 175, 238, 72, 187 >>)
    [] s = Sb -> U8(<< 62, 35, 232, 22, 0, 57, 89, 74, 51, 137, 79, 101,
                       100, 225, 177, 52, 139, 189, 122, 0, 136, 212, 44,
                       74, 203, 115, 238, 174, 213, 156, 0, 157 >>)
    [] s = Ssa -> U8(<< 125, 229, 152, 179, 255, 138, 153, 99, 142, 31, 155,
                        244, 146, 96, 186, 160, 217, 142, 6, 157, 222, 50,
                        209, 242, 225, 83, 173, 181, 206, 71, 130, 66 >>)
    [] s = Shello -> U8(<< 185, 77, 39, 185, 147, 77, 62, 8, 165, 46, 82,
                           215, 218, 125, 171, 250, 196, 132, 239, 227, 122,
                           83, 128, 238, 144, 136, 247, 172, 226, 239, 205,
                           233 >>)

\* ------------------------------------------------------------------------
\* Calls of the byte scalar utilities.  A call is drawn in the initial
\* state and applied by the action of its function.

\* largest count handed to byteToIndex
MaxCount == 260

\* min and max handed to byteToFloat, in hundredths: the literals of the
\* mapper and their negatives
RangeEnds ==
  { 0, 1, 8, 10, 15, 20, 30, 35, 40, 50, 60, 65, 70, 80, 100, 200, 800,
    1600, 6000, 30000, 36000, -1, -35, -80, -100, -6000, -36000 }

NoCall == [fn |-> "none", byte |-> 0, count |-> 0, min |-> 0, max |-> 0,
           done |-> FALSE, ret |-> 0]

IndexCall(b, c) == [NoCall EXCEPT !.fn = "byteToIndex", !.byte = b, !.count = c]

FloatCall(b, lo, hi) ==
  [NoCall EXCEPT !.fn = "byteToFloat", !.byte = b, !.min = Dec(lo), !.max = Dec(hi)]

CallByteToIndex ==
  /\ call.fn = "byteToIndex" /\ ~call.done
  /\ call' = [call EXCEPT !.done = TRUE, !.ret = byteToIndex(call.byte, call.count)]
  /\ UNCHANGED << mapVars, hookVars, gridVars,
                  appVars, hexVars, shaderVars, favVars >>

CallByteToFloat ==
  /\ call.fn = "byteToFloat" /\ ~call.done
  /\ call' = [call EXCEPT !.done = TRUE,
                          !.ret = byteToFloat(call.byte, call.min, call.max)]
  /\ UNCHANGED << mapVars, hookVars, gridVars,
                  appVars, hexVars, shaderVars, favVars >>

\* ------------------------------------------------------------------------
\* Calls of the mapper on a sweep of digests: the digest of "hello world"
\* with one coupled pair of bytes set to every pair of values, and every
\* sample digest with one byte set to every value.

DigestLength == 32

Golden == { hashString(Sa), hashString(Sb), hashString(Ssa), hashString(Shello) }

\* the byte pairs two axes share: secondaryHue (0, 3), rotationSpeed (14, 15)
CoupledPairs == { << 0, 3 >>, << 14, 15 >> }

With(base, i, a, j, b) ==
  [k \in 0..(DigestLength - 1) |->
     IF k = i THEN a ELSE IF k = j THEN b ELSE base[k]]

CallMap ==
  /\ mapped = null
  /\ mapped' = mapHashToConfig(digest)
  /\ UNCHANGED << digest, twin, mappedTwin, utilVars, hookVars,
                  gridVars,
                  appVars, hexVars, shaderVars, favVars >>

\* a second call of the mapper, on twin
CallMapTwin ==
  /\ mappedTwin = null
  /\ mappedTwin' = mapHashToConfig(twin)
  /\ UNCHANGED << digest, mapped, twin, utilVars, hookVars,
                  gridVars,
                  appVars, hexVars, shaderVars, favVars >>

\* ------------------------------------------------------------------------
\* useFingerprint: one mounted instance of the hook.  React runs the effect
\* after the first render and again, after the previous effect's cleanup,
\* whenever input changes; it runs the cleanup on unmount.

\* number of effects one instance runs in a behaviour
MaxEffects == 3

Inputs == { << >>, << " " >>, Sa, Sb, Ssa }

\* String.prototype.trim: drop leading and trailing white space
IsSpace(c) == c \in { " ", "\t", "\n", "\r" }

RECURSIVE TrimStart(_)
TrimStart(s) ==
  IF s # << >> /\ IsSpace(Head(s)) THEN TrimStart(Tail(s)) ELSE s

RECURSIVE TrimEnd(_)
TrimEnd(s) ==
  IF s # << >> /\ IsSpace(s[Len(s)]) THEN TrimEnd(SubSeq(s, 1, Len(s) - 1)) ELSE s

trim(s) == TrimEnd(TrimStart(s))

\* !input.trim(): the empty string is falsy
Blank(s) == trim(s) = << >>

NoSet == [by |-> 0, live |-> 0, for |-> << >>, input |-> << >>]

\* the effect of App.tsx: a blank input sets null at once and registers no
\* cleanup; any other input starts a digest whose callback the closure's
\* cancelled flag guards.  That of hooks/useFingerprint.ts: every input
\* starts a promise, resolved with null for a blank input.  effs are the
\* effects so far, the previous one cleaned up.
\* faulty variants: a blank input that leaves config as it is; an effect
\* that clears config whenever it starts
RunEffectKeepingConfig(s, effs) ==
  IF impl = "App" /\ Blank(s)
    THEN /\ config' = config
         /\ live' = 0
         /\ effects' = Append(effs,
              [input |-> s, cancelled |-> FALSE, promise |-> "none"])
    ELSE /\ config' = config
         /\ live' = Len(effs) + 1
         /\ effects' = Append(effs,
              [input |-> s, cancelled |-> FALSE, promise |-> "pending"])
RunEffectClearingConfig(s, effs) ==
  IF impl = "App" /\ Blank(s)
    THEN /\ config' = null
         /\ live' = 0
         /\ effects' = Append(effs,
              [input |-> s, cancelled |-> FALSE, promise |-> "none"])
    ELSE /\ config' = null
         /\ live' = Len(effs) + 1
         /\ effects' = Append(effs,
              [input |-> s, cancelled |-> FALSE, promise |-> "pending"])
RunEffect(s, effs) ==
  IF impl = "App" /\ Blank(s)
    THEN /\ config' = null
         /\ live' = 0
         /\ effects' = Append(effs,
              [input |-> s, cancelled |-> FALSE, promise |-> "none"])
    ELSE /\ config' = config
         /\ live' = Len(effs) + 1
         /\ effects' = Append(effs,
              [input |-> s, cancelled |-> FALSE, promise |-> "pending"])

\* return () => { cancelled = true }, run by React for the previous effect
Cleanup(effs) ==
  IF live = 0 THEN effs ELSE [effs EXCEPT ![live].cancelled = TRUE]

Mount ==
  /\ phase = "new"
  /\ phase' = "mounted"
  /\ RunEffect(input, effects)
  /\ UNCHANGED << input, impl, lastSet, mapLog, utilVars, mapVars,
                  gridVars,
                  appVars, hexVars, shaderVars, favVars >>

\* a render with a new input: cleanup of the previous effect, then the effect
SetInput(s) ==
  /\ phase = "mounted"
  /\ s # input
  /\ Len(effects) < MaxEffects
  /\ input' = s
  /\ RunEffect(s, Cleanup(effects))
  /\ UNCHANGED << phase, impl, lastSet, mapLog, utilVars, mapVars,
                  gridVars,
                  appVars, hexVars, shaderVars, favVars >>

Unmount ==
  /\ phase = "mounted"
  /\ phase' = "unmounted"
  /\ effects' = Cleanup(effects)
  /\ live' = 0
  /\ UNCHANGED << input, config, impl, lastSet, mapLog, utilVars, mapVars,
                  gridVars,
                  appVars, hexVars, shaderVars, favVars >>

\* the value the effect's promise resolves with
Resolved(e) == IF Blank(e.input) THEN null ELSE hashString(e.input)

\* the .then callback of effect id:
\*   App.tsx    if (!cancelled) setConfig(mapHashToConfig(bytes))
\*   hooks      if (!cancelled) setConfig(bytes ? mapHashToConfig(bytes) : null)
\* faulty variant: the callback without the cancelled guard
ResolveIgnoringCancelled(id) ==
  LET e == effects[id]
      got == Resolved(e)
  IN /\ e.promise = "pending"
     /\ effects' = [effects EXCEPT ![id].promise = "fulfilled"]
     /\ IF got = null
          THEN config' = null /\ mapLog' = mapLog
          ELSE /\ config' = mapHashToConfig(got)
               /\ mapLog' = Append(mapLog, [bytes |-> got, ret |-> mapHashToConfig(got)])
     /\ lastSet' = [by |-> id, live |-> live, for |-> e.input, input |-> input]
     /\ UNCHANGED << phase, input, impl, live, utilVars, mapVars,
                  gridVars,
                  appVars, hexVars, shaderVars, favVars >>

Resolve(id) ==
  LET e == effects[id]
      got == Resolved(e)
  IN /\ e.promise = "pending"
     /\ effects' = [effects EXCEPT ![id].promise = "fulfilled"]
     /\ IF e.cancelled
          THEN UNCHANGED << config, lastSet, mapLog >>
          ELSE /\ IF got = null
                    THEN config' = null /\ mapLog' = mapLog
                    ELSE /\ config' = mapHashToConfig(got)
                         /\ mapLog' = Append(mapLog,
                              [bytes |-> got, ret |-> mapHashToConfig(got)])
               /\ lastSet' = [by |-> id, live |-> live, for |-> e.input, input |-> input]
     /\ UNCHANGED << phase, input, impl, live, utilVars, mapVars,
                  gridVars,
                  appVars, hexVars, shaderVars, favVars >>

\* faulty variant: a failed digest replaced by thirty-two zero bytes
RejectWithFallback(id) ==
  LET zeros == [k \in 0..31 |-> 0]
  IN /\ effects[id].promise = "pending"
     /\ ~Blank(effects[id].input)
     /\ effects' = [effects EXCEPT ![id].promise = "rejected"]
     /\ IF effects[id].cancelled
          THEN UNCHANGED << config, mapLog >>
          ELSE /\ config' = mapHashToConfig(zeros)
               /\ mapLog' = Append(mapLog,
                    [bytes |-> zeros, ret |-> mapHashToConfig(zeros)])
     /\ UNCHANGED << phase, input, impl, live, lastSet, utilVars, mapVars,
                  gridVars,
                  appVars, hexVars, shaderVars, favVars >>
\* crypto.subtle.digest rejects: hashString has no catch, its promise
\* rejects, and the .then callback never runs
Reject(id) ==
  /\ effects[id].promise = "pending"
  /\ ~Blank(effects[id].input)
  /\ effects' = [effects EXCEPT ![id].promise = "rejected"]
  /\ UNCHANGED << phase, input, config, impl, live, lastSet, mapLog,
                  utilVars, mapVars,
                  gridVars,
                  appVars, hexVars, shaderVars, favVars >>

\* ------------------------------------------------------------------------
\* components/FingerprintSquares.tsx: the procedural cell generator
\*
\* Numbers of the renderer are fixed-point: a value in units of 1/10000
\* unless said otherwise; a product of two such values is cut to that unit.
\* Math.sin is given by its values on the arguments of the state (sine), in
\* units of 1/SineUnit; SineUnit divides 987654321, so the product of a sine
\* with 98765.4321 is a whole number of units.

GRID == 9
CORNER == 3
MINI_CENTER == 3
MINI_SIZE == 3

Unit == 10000
SineUnit == 2601

Min(a, b) == IF a < b THEN a ELSE b
Max(a, b) == IF a > b THEN a ELSE b

\* Math.floor of a fixed-point value
Floor(x) == (x \div Unit) * Unit

\* a product of two fixed-point values
Mul(a, b) == (a * b) \div Unit

\* x - Math.floor(x)
\* faulty variant: the fractional part by truncation (x % 1), negative
\* below zero
fractTruncating(x) == IF x >= 0 THEN x - Floor(x) ELSE 0 - ((0 - x) - Floor(0 - x))
fract(x) == x - Floor(x)

\* Math.sin at an argument the state has no value for is taken as 0
MathSin(arg) == IF arg \in DOMAIN sine THEN sine[arg] ELSE 0

\* the argument qx * 211.7 + qy * 391.1 of the sine of cellHash, kept as the
\* pair (qx, qy) in units of 1/2550000.  cx, cy are in tenths (the offsets
\* have one decimal), seed and seed2 in units of 1/25500
cellHashArg(cx, cy, seed, seed2) ==
  LET qx == cx * 255000 + seed * 31 + 73 * 255000
      qy == cy * 255000 + seed2 * 47 + 119 * 255000
  IN << 0, qx, qy >>

\* faulty variant: a hash that also draws on the number of renders so far
cellHashCounting(cx, cy, seed, seed2) ==
  fract((MathSin(cellHashArg(cx, cy, seed, seed2)) + Len(renders))
          * (987654321 \div SineUnit))
cellHash(cx, cy, seed, seed2) ==
  fract(MathSin(cellHashArg(cx, cy, seed, seed2)) * (987654321 \div SineUnit))

\* Math.sqrt of a fixed-point value: the largest s with s * s <= x
RECURSIVE SqrtBetween(_, _, _)
SqrtBetween(n, lo, hi) ==
  IF lo = hi THEN lo
  ELSE LET mid == (lo + hi + 1) \div 2
       IN IF mid * mid <= n THEN SqrtBetween(n, mid, hi)
                            ELSE SqrtBetween(n, lo, mid - 1)
Sqrt(x) == SqrtBetween(x * Unit, 0, 2 * Unit)

\* Math.round of a fixed-point value, as a whole number
RoundWhole(x) == (x + Unit \div 2) \div Unit

\* x.toFixed(digits) for a value x counted in units of 1/unit, digits 1 or
\* 2: the nearest multiple of 10^-digits, as a count of them
ToFixed(x, unit, digits) ==
  LET p == IF digits = 1 THEN 10 ELSE 100
  IN (2 * x * p + unit) \div (2 * unit)

smoothstep(a, b, x) ==
  LET t == Max(0, Min(Unit, ((x - a) * Unit) \div (b - a)))
  IN Mul(Mul(t, t), 3 * Unit - 2 * t)

\* the argument r * pi * (2 + patternFrequency * 0.3) of the sine of
\* cellPattern, kept as the pair (r, patternFrequency)
waveArg(r, patternFrequency) == << 1, r, patternFrequency >>

\* the radius of cell (cx, cy) from the centre of the grid
cellRadius(cx, cy) ==
  LET nx == ((cx * Unit + Unit \div 2) \div GRID) * 2 - Unit
      ny == ((cy * Unit + Unit \div 2) \div GRID) * 2 - Unit
  IN Sqrt(Mul(nx, nx) + Mul(ny, ny))

\* Math.min(1, rings + depth) at radius r
ringsWithDepth(r, patternFrequency) ==
  LET wave == MathSin(waveArg(r, patternFrequency))
      rings == ((wave + SineUnit) * (Unit \div 2)) \div SineUnit
      valley == Unit - rings
      radialBias == Unit - smoothstep(1000, 8500, r)
      depth == Mul(Mul(valley, radialBias), 3000)
  IN Min(Unit, rings + depth)

\* hub = 1 - smoothstep(0.12, 0.22, r)
\* faulty variant: a ramp that ends at 0.42
hubWide(r) == Unit - smoothstep(1200, 4200, r)
hub(r) == Unit - smoothstep(1200, 2200, r)

cellPattern(cx, cy, patternFrequency) ==
  LET r == cellRadius(cx, cy)
  IN Max(ringsWithDepth(r, patternFrequency), hub(r))

\* Math.min(1, pattern * 0.65 + grain * 0.45)
\* faulty variant: the sum without the cap
fillValUncapped(pattern, grain) == Mul(pattern, 6500) + Mul(grain, 4500)
fillVal(pattern, grain) == Min(Unit, Mul(pattern, 6500) + Mul(grain, 4500))

\* rgb(r,g,b) between paper and ink
grayFill(t) ==
  [ r |-> RoundWhole(238 * Unit + (15 - 238) * t),
    g |-> RoundWhole(238 * Unit + (15 - 238) * t),
    b |-> RoundWhole(235 * Unit + (17 - 235) * t) ]

\* hsl(h,s%,l%) with each number to one decimal, as counts of tenths.
\* hNorm is in units of 1/360 of the configuration's unit, so hNorm * 360
\* in the configuration's unit is the same count; s and l are in that unit
hslCss(hNorm, s, l) ==
  [ h |-> ToFixed(hNorm, One, 1),
    s |-> ToFixed(s * 100, One, 1),
    l |-> ToFixed(l * 100, One, 1) ]

\* the dark palette of the central cells: hsl(hue,sat%,lightness%), hue as
\* the configuration has it, sat and lightness to one decimal
darkFill(cfg, lightness) ==
  [ hue |-> cfg.primaryHue,
    sat |-> ToFixed(cfg.primarySaturation * 60 + Dec(3000), One, 1),
    lightness |-> lightness ]

seed1(cfg) == cfg.patternDensity * 100 + cfg.shimmerIntensity * 10
seed2(cfg) == cfg.breatheScale * 100 + cfg.colorShift * 100

\* (1 / pulseRate).toFixed(2), in hundredths of a second
shimmerDur(cfg) == (2 * 100 * One + cfg.pulseRate) \div (2 * cfg.pulseRate)

\* (cellHash(cx + 89.7, cy + 71.3, seed1, seed2) * 2).toFixed(2)
delayOf(cx, cy, cfg) ==
  ToFixed(cellHash(cx * 10 + 897, cy * 10 + 713, seed1(cfg), seed2(cfg)) * 2,
          Unit, 2)

\* the pattern cell of both components: pattern, grain and fillVal
patternOf(cx, cy, cfg) ==
  LET pattern == cellPattern(cx, cy, cfg.patternFrequency)
      grain == cellHash(cx * 10 + 173, cy * 10 + 231, seed1(cfg), seed2(cfg))
  IN [ pattern |-> pattern, grain |-> grain, fillVal |-> fillVal(pattern, grain) ]

\* const accent = hash > 0.95
\* faulty variants: a threshold of 0.9, reached included; one of 0.5
isAccentFrom90(hash) == hash >= 9000
isAccentFrom50(hash) == hash > 5000
isAccent(hash) == hash > 9500

\* hslCss(config.primaryHue / 360, config.primarySaturation, 0.56)
accentColor(cfg) == hslCss(cfg.primaryHue, cfg.primarySaturation, Dec(56))

\* the central 3 x 3 cells of the grid
isMini(cx, cy) ==
  /\ cx >= MINI_CENTER /\ cx < MINI_CENTER + MINI_SIZE
  /\ cy >= MINI_CENTER /\ cy < MINI_CENTER + MINI_SIZE

\* (7 + (1 - fillVal) * 21).toFixed(1), in tenths
lightnessOf(fv) == ToFixed(7 * Unit + (Unit - fv) * 21, Unit, 1)

\* FingerprintSquares: the element the grid callback returns for cell
\* (cx, cy), null for a cell of the corner
SquaresCell(cx, cy, cfg) ==
  IF cx < CORNER /\ cy < CORNER THEN null
  ELSE IF cx = MINI_CENTER + 1 /\ cy = MINI_CENTER + 1
    THEN [ kind |-> "accent", fill |-> accentColor(cfg), opacity |-> 9300,
           dur |-> shimmerDur(cfg), delay |-> delayOf(cx, cy, cfg) ]
  ELSE IF isAccent(cellHash(cx * 10, cy * 10, seed1(cfg), seed2(cfg)))
    THEN [ kind |-> "accent", fill |-> accentColor(cfg),
           opacity |-> 3500 + Mul(cellHash(cx * 10 + 431, cy * 10 + 679,
                                           seed1(cfg), seed2(cfg)), 6500),
           dur |-> shimmerDur(cfg), delay |-> delayOf(cx, cy, cfg) ]
  ELSE LET p == patternOf(cx, cy, cfg)
       IN [ kind |-> "pattern",
            fill |-> IF isMini(cx, cy) THEN darkFill(cfg, lightnessOf(p.fillVal))
                                       ELSE grayFill(p.fillVal),
            pattern |-> p.pattern, grain |-> p.grain, fillVal |-> p.fillVal ]

\* FingerprintMini: the element for local cell (localCx, localCy); the
\* accent of a hashed cell has no animation
MiniCell(localCx, localCy, cfg) ==
  LET cx == MINI_CENTER + localCx
      cy == MINI_CENTER + localCy
  IN IF localCx = 1 /\ localCy = 1
       THEN [ kind |-> "accent", fill |-> darkFill(cfg, 550), opacity |-> 9300,
              dur |-> shimmerDur(cfg), delay |-> delayOf(cx, cy, cfg) ]
     ELSE IF cellHash(cx * 10, cy * 10, seed1(cfg), seed2(cfg)) > 9500
       THEN [ kind |-> "accent", fill |-> darkFill(cfg, 550),
              opacity |-> 5000 + Mul(cellHash(cx * 10 + 431, cy * 10 + 679,
                                              seed1(cfg), seed2(cfg)), 4000) ]
     ELSE LET p == patternOf(cx, cy, cfg)
          IN [ kind |-> "pattern",
               fill |-> darkFill(cfg, lightnessOf(p.fillVal)),
               pattern |-> p.pattern, grain |-> p.grain, fillVal |-> p.fillVal ]

\* ------------------------------------------------------------------------
\* Renders of one cell of the grid.  The configuration, the cell and the
\* values of Math.sin are drawn in the initial state; a render applies the
\* callback of the component to the cell and is recorded with the seeds
\* the component computed.

\* most renders recorded
MaxRenders == 2

RenderSquares ==
  /\ Len(renders) < MaxRenders
  /\ renders' = Append(renders,
       [ by |-> "FingerprintSquares",
         seeds |-> << seed1(gcfg), seed2(gcfg) >>,
         out |-> SquaresCell(cell.cx, cell.cy, gcfg) ])
  /\ UNCHANGED << gcfg, cell, sine, hcall, utilVars, mapVars, hookVars,
                  appVars, hexVars, shaderVars, favVars >>

RenderMini ==
  /\ Len(renders) < MaxRenders
  /\ isMini(cell.cx, cell.cy)
  /\ renders' = Append(renders,
       [ by |-> "FingerprintMini",
         seeds |-> << seed1(gcfg), seed2(gcfg) >>,
         out |-> MiniCell(cell.cx - MINI_CENTER, cell.cy - MINI_CENTER, gcfg) ])
  /\ UNCHANGED << gcfg, cell, sine, hcall, utilVars, mapVars, hookVars,
                  appVars, hexVars, shaderVars, favVars >>

\* a call of cellHash by itself
NoHashCall == [cx |-> 0, cy |-> 0, seed |-> 0, seed2 |-> 0, done |-> FALSE, ret |-> 0]

CallCellHash ==
  /\ ~hcall.done
  /\ hcall' = [hcall EXCEPT !.done = TRUE,
                 !.ret = cellHash(hcall.cx, hcall.cy, hcall.seed, hcall.seed2)]
  /\ UNCHANGED << gcfg, cell, sine, renders, utilVars, mapVars, hookVars,
                  appVars, hexVars, shaderVars, favVars >>

\* ------------------------------------------------------------------------
\* Favicon fetch (App.tsx): readPixelsFromImage, tryFaviconUrl,
\* fetchFaviconPixels.  A string is a sequence of pieces (white space,
\* scheme, host, path); an image is the sequence of the channel values a
\* canvas reads from it (gray pixels: r = g = b, from which the pixel's
\* colour and opacity follow); pixels are a record holding such a sequence.

U0 == << "https://", "mcp.example.com", "/agents/gpt-4o" >>
Ua == << " ", "http://", "a.example" >>
N7 == << "agent-7" >>

\* the pixels of img, each channel replaced by 255 - channel under invert
readPixelsFromImage(img, invert) ==
  [data |-> [i \in DOMAIN img |-> IF invert THEN 255 - img[i] ELSE img[i]]]

\* new URL(urlString): throws when the string has no scheme, or an http(s)
\* scheme without a host; a file URL may have an empty hostname
URL(urlString) ==
  IF urlString = << >> \/ Head(urlString) \notin { "http://", "https://", "file://" }
    THEN [throws |-> TRUE, hostname |-> ""]
  ELSE IF Len(urlString) < 2 \/ urlString[2] = ""
    THEN [throws |-> Head(urlString) # "file://", hostname |-> ""]
  ELSE [throws |-> FALSE, hostname |-> urlString[2]]

services(hostname) ==
  << << "https://", "icons.duckduckgo.com", "/ip3/", hostname, ".ico" >>,
     << "https://", "icon.horse", "/icon/", hostname >>,
     << "https://", "www.google.com", "/s2/favicons?domain=", hostname, "&sz=64" >> >>

\* the image a favicon service serves for a host: one shade for the host,
\* one for the service
FaviconImage(url) ==
  << IF url[4] = "mcp.example.com" THEN 40 ELSE 90,
     IF url[2] = "icons.duckduckgo.com" THEN 10
     ELSE IF url[2] = "icon.horse" THEN 20 ELSE 30 >>

FavInputs == { U0, N7, << "https://" >>, << "file://", "", "/logo.png" >> }

\* tryFaviconUrl(faviconUrl) just called: the image loading, the timer
\* armed, the promise unsettled, the awaiting caller not yet resumed
NewAttempt(faviconUrl) ==
  [url |-> faviconUrl, img |-> "loading", timeout |-> "armed",
   settled |-> FALSE, value |-> null, resumed |-> 0]

\* resolve(v) of attempt i, whose image and timer become img and timeout:
\* a settled promise ignores it; otherwise the promise settles and
\* fetchFaviconPixels resumes after its await: it returns a non-null
\* result, tries the next service, or returns null after the last
\* faulty variant: a promise that settles every time resolve is called
resolveEveryTime(i, v, img, timeout) ==
  LET a == [attempts[i] EXCEPT !.img = img, !.timeout = timeout,
                               !.settled = TRUE, !.value = v, !.resumed = @ + 1]
      atts == [attempts EXCEPT ![i] = a]
  IN IF v # null
       THEN /\ fav' = [fav EXCEPT !.pc = "returned", !.result = v]
            /\ attempts' = atts
     ELSE IF Len(attempts) < Len(services(""))
       THEN /\ attempts' = Append(atts, NewAttempt(services(URL(fav.urlString).hostname)[Len(attempts) + 1]))
            /\ fav' = fav
     ELSE /\ fav' = [fav EXCEPT !.pc = "returned", !.result = null]
          /\ attempts' = atts
resolve(i, v, img, timeout) ==
  IF attempts[i].settled
    THEN /\ attempts' = [attempts EXCEPT ![i].img = img, ![i].timeout = timeout]
         /\ fav' = fav
  ELSE LET a == [attempts[i] EXCEPT !.img = img, !.timeout = timeout,
                                    !.settled = TRUE, !.value = v, !.resumed = @ + 1]
           atts == [attempts EXCEPT ![i] = a]
       IN IF v # null
            THEN /\ fav' = [fav EXCEPT !.pc = "returned", !.result = v]
                 /\ attempts' = atts
          ELSE IF i < Len(services(""))
            THEN /\ attempts' = Append(atts, NewAttempt(services(URL(fav.urlString).hostname)[i + 1]))
                 /\ fav' = fav
          ELSE /\ fav' = [fav EXCEPT !.pc = "returned", !.result = null]
               /\ attempts' = atts

clearTimeout(timeout) == IF timeout = "armed" THEN "cleared" ELSE timeout

\* fetchFaviconPixels up to its first await
CallFetch ==
  /\ fav.pc = "called"
  /\ LET u == URL(fav.urlString)
     IN IF u.throws \/ u.hostname = ""
          THEN /\ fav' = [fav EXCEPT !.pc = "returned", !.result = null]
               /\ attempts' = attempts
          ELSE /\ fav' = [fav EXCEPT !.pc = "awaiting"]
               /\ attempts' = << NewAttempt(services(u.hostname)[1]) >>
  /\ UNCHANGED << utilVars, mapVars, hookVars, gridVars, appVars, hexVars,
                  shaderVars >>

\* img.onload: the canvas read succeeds, or throws on a tainted canvas
ImgLoad(i, tainted) ==
  /\ attempts[i].img = "loading"
  /\ resolve(i, IF tainted THEN null
                ELSE readPixelsFromImage(FaviconImage(attempts[i].url), FALSE),
             "loaded", clearTimeout(attempts[i].timeout))
  /\ UNCHANGED << utilVars, mapVars, hookVars, gridVars, appVars, hexVars,
                  shaderVars >>

\* img.onerror
ImgError(i) ==
  /\ attempts[i].img = "loading"
  /\ resolve(i, null, "error", clearTimeout(attempts[i].timeout))
  /\ UNCHANGED << utilVars, mapVars, hookVars, gridVars, appVars, hexVars,
                  shaderVars >>

\* the 6000 ms timer fires
Timeout(i) ==
  /\ attempts[i].timeout = "armed"
  /\ resolve(i, null, attempts[i].img, "fired")
  /\ UNCHANGED << utilVars, mapVars, hookVars, gridVars, appVars, hexVars,
                  shaderVars >>

NoFetch == [urlString |-> << >>, pc |-> "none", result |-> null]

\* ------------------------------------------------------------------------
\* App and LogoUpload (App.tsx): the debounced input, the favicon effect,
\* the logo corner.  A render and the effects it runs are one step; the
\* timer and each promise callback are steps of their own.

\* bound on the user's actions that start asynchronous work: changes of
\* the input field and pixelateLogo calls
MaxActs == 3

AppInputs == { U0, Ua, N7 }

\* a File, and the image the browser decodes from it
File(name) == [name |-> name]
Files == { File("logo.svg") }
FileImage(file) == << 0, 200, 255 >>

\* String.prototype.startsWith, for a prefix that is one piece
startsWith(s, prefix) == s # << >> /\ Head(s) = prefix

isUrl(url) == startsWith(url, "http://") \/ startsWith(url, "https://")

\* what fetchFaviconPixels(url) can resolve with
FetchOutcomes(url) ==
  { null } \cup
  { readPixelsFromImage(FaviconImage(services(URL(url).hostname)[k]), FALSE) :
      k \in 1..Len(services("")) }

\* the cleanup of the favicon effect that registered one
FaviconCleanup ==
  IF liveFetch = 0 THEN fetches ELSE [fetches EXCEPT ![liveFetch].cancelled = TRUE]

\* the favicon effect of a render with a new debouncedInput d, after the
\* cleanup of the effect before it
FaviconEffect(d) ==
  LET url == trim(d)
      loading == IF liveFetch = 0 THEN faviconLoading ELSE FALSE
  IN IF logoSource = "manual"
       THEN /\ fetches' = FaviconCleanup /\ liveFetch' = 0
            /\ faviconLoading' = loading
            /\ UNCHANGED << logoPixels, rawAutoPixels, logoSource >>
     ELSE IF ~isUrl(url)
       THEN /\ fetches' = FaviconCleanup /\ liveFetch' = 0
            /\ faviconLoading' = loading
            /\ IF logoSource = "auto"
                 THEN logoPixels' = null /\ rawAutoPixels' = null /\ logoSource' = "null"
                 ELSE UNCHANGED << logoPixels, rawAutoPixels, logoSource >>
     ELSE /\ fetches' = Append(FaviconCleanup,
                               [url |-> url, logoSource |-> logoSource,
                                cancelled |-> FALSE, promise |-> "pending"])
          /\ liveFetch' = Len(fetches) + 1
          /\ faviconLoading' = TRUE
          /\ UNCHANGED << logoPixels, rawAutoPixels, logoSource >>

\* onChange of the input field: the debounce effect's cleanup clears the
\* pending timer and the effect sets a new one
\* faulty variant: the old timer is left to fire
setInputValueKeepingTimer(s) ==
  /\ s # inputValue
  /\ Len(held) - 1 + Len(pixelations) < MaxActs
  /\ inputValue' = s
  /\ held' = Append(held, s)
  /\ timer' = [timer EXCEPT !.pending = TRUE]
  /\ UNCHANGED << debouncedInput, logoPixels, logoSource, rawAutoPixels,
                  faviconLoading, fetches, liveFetch, inverted, fileRef,
                  pixelations, utilVars, mapVars, hookVars, gridVars,
                  hexVars, shaderVars, favVars >>
setInputValue(s) ==
  /\ s # inputValue
  /\ Len(held) - 1 + Len(pixelations) < MaxActs
  /\ inputValue' = s
  /\ held' = Append(held, s)
  /\ timer' = [pending |-> TRUE, value |-> s]
  /\ UNCHANGED << debouncedInput, logoPixels, logoSource, rawAutoPixels,
                  faviconLoading, fetches, liveFetch, inverted, fileRef,
                  pixelations, utilVars, mapVars, hookVars, gridVars,
                  hexVars, shaderVars, favVars >>

\* the debounce timer fires: setDebouncedInput(inputValue of its closure),
\* and, if that is a new value, the render's favicon effect
FireTimer ==
  /\ timer.pending
  /\ timer' = [timer EXCEPT !.pending = FALSE]
  /\ debouncedInput' = timer.value
  /\ IF timer.value = debouncedInput
       THEN UNCHANGED << logoPixels, logoSource, rawAutoPixels, faviconLoading,
                         fetches, liveFetch >>
       ELSE FaviconEffect(timer.value)
  /\ UNCHANGED << inputValue, held, inverted, fileRef, pixelations, utilVars,
                  mapVars, hookVars, gridVars, hexVars, shaderVars, favVars >>

\* the callback of fetchFaviconPixels(url).then of favicon effect id
\* faulty variant: the callback without the cancelled guard
FetchSettleIgnoringCancelled(id, pixels) ==
  LET f == fetches[id]
  IN /\ f.promise = "pending"
     /\ fetches' = [fetches EXCEPT ![id].promise = "fulfilled"]
     /\ faviconLoading' = FALSE
     /\ IF pixels # null
          THEN rawAutoPixels' = pixels /\ logoPixels' = pixels /\ logoSource' = "auto"
        ELSE IF f.logoSource = "auto"
          THEN logoPixels' = null /\ rawAutoPixels' = null /\ logoSource' = "null"
        ELSE UNCHANGED << logoPixels, rawAutoPixels, logoSource >>
     /\ UNCHANGED << inputValue, debouncedInput, timer, held, liveFetch,
                     inverted, fileRef, pixelations, utilVars, mapVars,
                     hookVars, gridVars, hexVars, shaderVars, favVars >>
FetchSettle(id, pixels) ==
  LET f == fetches[id]
  IN /\ f.promise = "pending"
     /\ fetches' = [fetches EXCEPT ![id].promise = "fulfilled"]
     /\ IF f.cancelled
          THEN UNCHANGED << logoPixels, rawAutoPixels, logoSource, faviconLoading >>
          ELSE /\ faviconLoading' = FALSE
               /\ IF pixels # null
                    THEN rawAutoPixels' = pixels /\ logoPixels' = pixels /\ logoSource' = "auto"
                  ELSE IF f.logoSource = "auto"
                    THEN logoPixels' = null /\ rawAutoPixels' = null /\ logoSource' = "null"
                  ELSE UNCHANGED << logoPixels, rawAutoPixels, logoSource >>
     /\ UNCHANGED << inputValue, debouncedInput, timer, held, liveFetch,
                     inverted, fileRef, pixelations, utilVars, mapVars,
                     hookVars, gridVars, hexVars, shaderVars, favVars >>

\* the onPixels prop App hands to LogoUpload
onPixels(p) ==
  /\ logoPixels' = p
  /\ logoSource' = IF p # null THEN "manual" ELSE "null"
  /\ rawAutoPixels' = IF p = null THEN null ELSE rawAutoPixels

\* pixelateLogo(file, invert) just called
NewPixelation(file, invert) == [file |-> file, invert |-> invert, promise |-> "pending"]

\* the in-memory inversion toggleInvert applies to the favicon's pixels
invertPixels(pixels, next) ==
  [data |-> [i \in DOMAIN pixels.data |->
               IF next THEN 255 - pixels.data[i] ELSE pixels.data[i]]]

\* LogoUpload.handleFile up to its await; the file input is rendered when
\* there are no pixels and no spinner
handleFile(file) ==
  /\ logoPixels = null /\ ~faviconLoading
  /\ Len(held) - 1 + Len(pixelations) < MaxActs
  /\ fileRef' = file
  /\ pixelations' = Append(pixelations, NewPixelation(file, inverted))
  /\ UNCHANGED << inputValue, debouncedInput, timer, held, logoPixels,
                  logoSource, rawAutoPixels, faviconLoading, fetches,
                  liveFetch, inverted, utilVars, mapVars, hookVars, gridVars,
                  hexVars, shaderVars, favVars >>

\* LogoUpload.toggleInvert up to its await; the button is rendered when
\* there are pixels
toggleInvert ==
  LET next == ~inverted
  IN /\ logoPixels # null
     /\ inverted' = next
     /\ IF fileRef # null
          THEN /\ Len(held) - 1 + Len(pixelations) < MaxActs
               /\ pixelations' = Append(pixelations, NewPixelation(fileRef, next))
               /\ UNCHANGED << logoPixels, logoSource, rawAutoPixels >>
        ELSE IF rawAutoPixels # null
          THEN /\ onPixels(invertPixels(rawAutoPixels, next))
               /\ pixelations' = pixelations
        ELSE UNCHANGED << logoPixels, logoSource, rawAutoPixels, pixelations >>
     /\ UNCHANGED << inputValue, debouncedInput, timer, held, faviconLoading,
                     fetches, liveFetch, fileRef, utilVars, mapVars, hookVars,
                     gridVars, hexVars, shaderVars, favVars >>

\* LogoUpload.clear
clear ==
  /\ logoPixels # null
  /\ fileRef' = null
  /\ inverted' = FALSE
  /\ onPixels(null)
  /\ UNCHANGED << inputValue, debouncedInput, timer, held, faviconLoading,
                  fetches, liveFetch, pixelations, utilVars, mapVars,
                  hookVars, gridVars, hexVars, shaderVars, favVars >>

\* img.onload of pixelation id: handleFile or toggleInvert resumes with
\* the pixels and calls onPixels
PixelateResolve(id) ==
  LET p == pixelations[id]
  IN /\ p.promise = "pending"
     /\ pixelations' = [pixelations EXCEPT ![id].promise = "fulfilled"]
     /\ onPixels(readPixelsFromImage(FileImage(p.file), p.invert))
     /\ UNCHANGED << inputValue, debouncedInput, timer, held, faviconLoading,
                     fetches, liveFetch, inverted, fileRef, utilVars, mapVars,
                     hookVars, gridVars, hexVars, shaderVars, favVars >>

\* reader.onerror or img.onerror of pixelation id: the awaiting handler
\* throws and calls nothing
PixelateReject(id) ==
  /\ pixelations[id].promise = "pending"
  /\ pixelations' = [pixelations EXCEPT ![id].promise = "rejected"]
  /\ UNCHANGED << inputValue, debouncedInput, timer, held, logoPixels,
                  logoSource, rawAutoPixels, faviconLoading, fetches,
                  liveFetch, inverted, fileRef, utilVars, mapVars, hookVars,
                  gridVars, hexVars, shaderVars, favVars >>

\* ------------------------------------------------------------------------
\* useHashHex (hooks/useFingerprint.ts), on the hook variables phase, input,
\* effects and live, with its state hex; a hex string is the sequence of
\* its digits

HexDigit(n) ==
  << "0", "1", "2", "3", "4", "5", "6", "7", "8", "9", "a", "b", "c", "d",
     "e", "f" >>[n + 1]

\* Array.from(bytes).map((b) => b.toString(16).padStart(2, "0")).join("")
toHex(bytes) ==
  [i \in 1..(2 * Cardinality(DOMAIN bytes)) |->
     LET b == bytes[(i - 1) \div 2]
     IN HexDigit(IF i % 2 = 1 THEN b \div 16 ELSE b % 16)]

\* the effect of a render with input s, given the effects so far: on a
\* blank input it returns before any request and registers no cleanup
HexRunEffect(s, effs) ==
  IF Blank(s)
    THEN /\ live' = 0
         /\ effects' = Append(effs,
              [input |-> s, cancelled |-> FALSE, promise |-> "none"])
    ELSE /\ live' = Len(effs) + 1
         /\ effects' = Append(effs,
              [input |-> s, cancelled |-> FALSE, promise |-> "pending"])

HexMount ==
  /\ phase = "new"
  /\ phase' = "mounted"
  /\ HexRunEffect(input, effects)
  /\ UNCHANGED << input, config, impl, lastSet, mapLog, hex, utilVars,
                  mapVars, gridVars, appVars, shaderVars, favVars >>

HexSetInput(s) ==
  /\ phase = "mounted"
  /\ s # input
  /\ Len(effects) < MaxEffects
  /\ input' = s
  /\ HexRunEffect(s, Cleanup(effects))
  /\ UNCHANGED << phase, config, impl, lastSet, mapLog, hex, utilVars,
                  mapVars, gridVars, appVars, shaderVars, favVars >>

HexUnmount ==
  /\ phase = "mounted"
  /\ phase' = "unmounted"
  /\ effects' = Cleanup(effects)
  /\ live' = 0
  /\ UNCHANGED << input, config, impl, lastSet, mapLog, hex, utilVars,
                  mapVars, gridVars, appVars, shaderVars, favVars >>

\* the callback of hashString(input).then of effect id
HexResolve(id) ==
  LET e == effects[id]
  IN /\ e.promise = "pending"
     /\ effects' = [effects EXCEPT ![id].promise = "fulfilled"]
     /\ hex' = IF e.cancelled THEN hex ELSE toHex(hashString(e.input))
     /\ UNCHANGED << phase, input, config, impl, live, lastSet, mapLog,
                     utilVars, mapVars, gridVars, appVars, shaderVars,
                     favVars >>

\* crypto.subtle.digest rejects: no callback runs
HexReject(id) ==
  /\ effects[id].promise = "pending"
  /\ effects' = [effects EXCEPT ![id].promise = "rejected"]
  /\ UNCHANGED << phase, input, config, impl, live, lastSet, mapLog, hex,
                  utilVars, mapVars, gridVars, appVars, shaderVars, favVars >>

\* ------------------------------------------------------------------------
\* The 3D renderer: the uniforms Fingerprint builds from its config prop
\* and the branches the fragment shader takes on them

patternTypeMapSwapped ==
  [voronoi |-> 0, noise |-> 1, rings |-> 2, grid |-> 3, hexagonal |-> 5,
   spiral |-> 4, stripes |-> 6, dots |-> 7]
patternTypeMap ==
  [voronoi |-> 0, noise |-> 1, rings |-> 2, grid |-> 3, hexagonal |-> 4,
   spiral |-> 5, stripes |-> 6, dots |-> 7]

borderStyleMap == [none |-> 0, thin |-> 1, thick |-> 2, glow |-> 3]

\* map[key] ?? 0
OrZero(map, key) == IF key \in DOMAIN map THEN map[key] ELSE 0

\* the uniforms read by getPattern and by the border branch
createUniforms(cfg) ==
  [uPatternType |-> OrZero(patternTypeMap, cfg.patternType),
   uPatternFrequency |-> cfg.patternFrequency,
   uPatternDensity |-> cfg.patternDensity,
   uBorderStyle |-> OrZero(borderStyleMap, cfg.borderStyle),
   uBorderWidth |-> cfg.borderWidth]

\* getPattern(uv, type, freq): the pattern function it calls
getPattern(type) ==
  IF type = 0 THEN "voronoi"
  ELSE IF type = 1 THEN "snoise2"
  ELSE IF type = 2 THEN "rings"
  ELSE IF type = 3 THEN "grid"
  ELSE IF type = 4 THEN "hex"
  ELSE IF type = 5 THEN "spiral"
  ELSE IF type = 6 THEN "stripes"
  ELSE "dots"

\* main(): the border branch taken, and the factor applied to uBorderWidth
border(style) ==
  IF style = 3 THEN [branch |-> "glow", widthFactor |-> 0]
  ELSE IF style >= 1
    THEN [branch |-> "border", widthFactor |-> IF style = 2 THEN 2 ELSE 1]
  ELSE [branch |-> "none", widthFactor |-> 0]

NoShade == [pattern |-> "", border |-> [branch |-> "", widthFactor |-> 0]]

\* Fingerprint renders: useMemo builds the uniforms from config
RenderFingerprint ==
  /\ mapped # null
  /\ uniforms = null
  /\ uniforms' = createUniforms(mapped)
  /\ UNCHANGED << shade, utilVars, mapVars, hookVars, gridVars, appVars,
                  hexVars, favVars >>

\* the fragment shader runs on the uniforms
RunShader ==
  /\ uniforms # null
  /\ shade = NoShade
  /\ shade' = [pattern |-> getPattern(uniforms.uPatternType),
               border |-> border(uniforms.uBorderStyle)]
  /\ UNCHANGED << uniforms, utilVars, mapVars, hookVars, gridVars, appVars,
                  hexVars, favVars >>

\* ------------------------------------------------------------------------
\* Specifications

IdleUtil == call = NoCall
IdleTwin == twin = digest /\ mappedTwin = null
IdleMap == digest = hashString(Shello) /\ mapped = null /\ IdleTwin
IdleHook ==
  /\ impl = "App" /\ phase = "unmounted" /\ input = << >> /\ config = null
  /\ effects = << >> /\ live = 0 /\ lastSet = NoSet /\ mapLog = << >>
IdleGrid ==
  /\ gcfg = mapHashToConfig(hashString(Shello)) /\ cell = [cx |-> 0, cy |-> 0]
  /\ renders = << >>
IdleRender == IdleGrid /\ sine = << >> /\ hcall = NoHashCall

IdleApp ==
  /\ inputValue = U0 /\ debouncedInput = U0
  /\ timer = [pending |-> FALSE, value |-> U0] /\ held = << U0 >>
  /\ logoPixels = null /\ logoSource = "null" /\ rawAutoPixels = null
  /\ faviconLoading = FALSE /\ fetches = << >> /\ liveFetch = 0
  /\ inverted = FALSE /\ fileRef = null /\ pixelations = << >>
IdleHex == hex = << >>
IdleShader == uniforms = null /\ shade = NoShade
IdleFav == fav = NoFetch /\ attempts = << >>

\* the hook
Init ==
  /\ impl \in { "App", "hooks" }
  /\ phase = "new"
  /\ input \in Inputs
  /\ config = null
  /\ effects = << >>
  /\ live = 0
  /\ lastSet = NoSet
  /\ mapLog = << >>
  /\ IdleUtil /\ IdleMap /\ IdleRender
  /\ IdleApp /\ IdleHex /\ IdleShader /\ IdleFav

Next ==
  \/ Mount
  \/ \E s \in Inputs : SetInput(s)
  \/ Unmount
  \/ \E id \in 1..Len(effects) : Resolve(id)
  \/ \E id \in 1..Len(effects) : Reject(id)

Spec == Init /\ [][Next]_vars

\* the byte scalar utilities
UtilInit ==
  /\ \/ \E b \in Bytes, c \in 1..MaxCount : call = IndexCall(b, c)
     \/ \E b \in Bytes, lo \in RangeEnds, hi \in RangeEnds :
          lo <= hi /\ call = FloatCall(b, lo, hi)
  /\ IdleMap /\ IdleHook /\ IdleRender
  /\ IdleApp /\ IdleHex /\ IdleShader /\ IdleFav
UtilNext == CallByteToIndex \/ CallByteToFloat
UtilSpec == UtilInit /\ [][UtilNext]_vars

\* the mapper
MapInit ==
  /\ \/ \E p \in CoupledPairs, a \in Bytes, b \in Bytes :
          digest = With(hashString(Shello), p[1], a, p[2], b)
     \/ \E g \in Golden, i \in 0..(DigestLength - 1), a \in Bytes :
          digest = With(g, i, a, i, a)
  /\ mapped = null
  /\ IdleTwin /\ IdleUtil /\ IdleHook /\ IdleRender
  /\ IdleApp /\ IdleHex /\ IdleShader /\ IdleFav
MapNext == CallMap
MapSpec == MapInit /\ [][MapNext]_vars

\* the mapper on two digests: digest is a sample digest; twin is digest
\* with one byte replaced by any value, or with every byte the mapper does
\* not read replaced by one value
Unread == { 5, 7, 9, 17 } \cup (24..(DigestLength - 1))

PairInit ==
  /\ digest \in Golden
  /\ \/ \E i \in 0..(DigestLength - 1), a \in Bytes :
          twin = With(digest, i, a, i, a)
     \/ \E a \in Bytes :
          twin = [k \in 0..(DigestLength - 1) |->
                    IF k \in Unread THEN a ELSE digest[k]]
  /\ mapped = null /\ mappedTwin = null
  /\ IdleUtil /\ IdleHook /\ IdleRender
  /\ IdleApp /\ IdleHex /\ IdleShader /\ IdleFav
PairNext == CallMap \/ CallMapTwin
PairSpec == PairInit /\ [][PairNext]_vars

\* the mapper on a Uint8Array of any length: a sample digest cut short
\* or extended with zero bytes
MaxDigestLength == 40

\* bytes.length
Length(bytes) == Cardinality(DOMAIN bytes)

\* NaN; a Uint8Array read past its end is undefined, undefined / 255 is NaN,
\* and NaN spreads through +, *, %, Math.round, Math.floor and Math.sin
NaN == "NaN"

\* the bytes whose absence makes an axis NaN (undefined for an axis picked
\* from an array, which NaN indexes).  rotationSpeed: undefined < 128 is
\* false, the sign is then -1 as for a byte of 128 or more
NaNSources ==
  [ primaryHue |-> { 0 }, primarySaturation |-> { 1 },
    primaryLightness |-> { 2 }, secondaryHue |-> { 0, 3 },
    secondaryLightness |-> { 4 }, geometryClass |-> { 6 },
    patternType |-> { 8 }, patternFrequency |-> { 10 },
    patternDensity |-> { 11 }, borderStyle |-> { 12 },
    borderWidth |-> { 13 }, rotationSpeed |-> { 14 },
    rotationAxis |-> { 15 }, particleDensity |-> { 16 },
    displacementAmplitude |-> { 18 }, displacementFrequency |-> { 19 },
    pulseRate |-> { 20 }, shimmerIntensity |-> { 21 },
    colorShift |-> { 22 }, breatheScale |-> { 23 } ]

\* mapHashToConfig carries no check of bytes.length and no throw: it
\* reads the same 24 indices of any array and returns the same object
mapHashToConfigOfAnyLength(bytes) ==
  LET padded == [k \in 0..(DigestLength - 1) |->
                   IF k \in DOMAIN bytes THEN bytes[k] ELSE ByteMax]
      cfg == mapHashToConfig(padded)
  IN [axis \in DOMAIN cfg |->
        IF NaNSources[axis] \subseteq DOMAIN bytes THEN cfg[axis]
        ELSE IF axis \in { "geometryClass", "patternType", "borderStyle" }
             THEN "undefined"
        ELSE IF axis = "rotationAxis" THEN << NaN, NaN, NaN >>
        ELSE NaN]

CallMapOfAnyLength ==
  /\ mapped = null
  /\ mapped' = mapHashToConfigOfAnyLength(digest)
  /\ UNCHANGED << digest, twin, mappedTwin, utilVars, hookVars,
                  gridVars,
                  appVars, hexVars, shaderVars, favVars >>

LenInit ==
  /\ \E g \in Golden, n \in 0..MaxDigestLength :
       digest = [k \in 0..(n - 1) |-> IF k < DigestLength THEN g[k] ELSE 0]
  /\ mapped = null
  /\ twin = digest /\ mappedTwin = null
  /\ IdleUtil /\ IdleHook /\ IdleRender
  /\ IdleApp /\ IdleHex /\ IdleShader /\ IdleFav
LenNext == CallMapOfAnyLength
LenSpec == LenInit /\ [][LenNext]_vars

\* the renderer
\* cellHash: every value of the sine, at cell coordinates with and without
\* the offsets of the component, for the seeds of two sample configurations
HashCoords == { 0, 80, 40 + 431, 80 + 897 }
HashInit ==
  /\ \E x \in HashCoords, y \in { 0, 80 + 713 }, s \in { Sa, Shello },
        k \in (0 - SineUnit)..SineUnit :
       LET cfg == mapHashToConfig(hashString(s))
       IN /\ hcall = [NoHashCall EXCEPT !.cx = x, !.cy = y,
                        !.seed = seed1(cfg), !.seed2 = seed2(cfg)]
          /\ sine = (cellHashArg(x, y, seed1(cfg), seed2(cfg)) :> k)
  /\ IdleGrid /\ IdleUtil /\ IdleMap /\ IdleHook
  /\ IdleApp /\ IdleHex /\ IdleShader /\ IdleFav
HashNext == CallCellHash
HashSpec == HashInit /\ [][HashNext]_vars

\* the grid: the configuration of "hello world" with byte 10 set for every
\* patternFrequency 1..16, and those of the other sample digests; every
\* cell; and for each argument of Math.sin a few values: for the cell's own
\* hash 0.95 exactly, just above it, and 0.9999 from a negative sine
GridConfigs ==
  { mapHashToConfig(With(hashString(Shello), 10, 17 * (f - 1), 10, 17 * (f - 1))) :
      f \in 1..16 }
  \cup { mapHashToConfig(g) : g \in Golden }
GridInit ==
  /\ gcfg \in GridConfigs
  /\ \E cx \in 0..(GRID - 1), cy \in 0..(GRID - 1) : cell = [cx |-> cx, cy |-> cy]
  /\ \E a \in { -500, 181, -681 }, b \in { 0, -681 }, c \in { -681 },
        d \in { 0, -681 }, w \in { 0 - SineUnit, 0, SineUnit } :
       LET s1 == seed1(gcfg)
           s2 == seed2(gcfg)
           x == cell.cx * 10
           y == cell.cy * 10
       IN sine = (cellHashArg(x, y, s1, s2) :> a)
                 @@ (cellHashArg(x + 431, y + 679, s1, s2) :> b)
                 @@ (cellHashArg(x + 897, y + 713, s1, s2) :> c)
                 @@ (cellHashArg(x + 173, y + 231, s1, s2) :> d)
                 @@ (waveArg(cellRadius(cell.cx, cell.cy), gcfg.patternFrequency) :> w)
  /\ renders = << >>
  /\ hcall = NoHashCall
  /\ IdleUtil /\ IdleMap /\ IdleHook
  /\ IdleApp /\ IdleHex /\ IdleShader /\ IdleFav
GridNext == RenderSquares \/ RenderMini
GridSpec == GridInit /\ [][GridNext]_vars


\* App after its first render and that render's effects: the debounce
\* timer is pending and the favicon of the initial URL is being fetched
AppInit ==
  /\ inputValue = U0 /\ debouncedInput = U0
  /\ timer = [pending |-> TRUE, value |-> U0]
  /\ held = << U0 >>
  /\ logoPixels = null /\ logoSource = "null" /\ rawAutoPixels = null
  /\ faviconLoading = TRUE
  /\ fetches = << [url |-> trim(U0), logoSource |-> "null",
                   cancelled |-> FALSE, promise |-> "pending"] >>
  /\ liveFetch = 1
  /\ inverted = FALSE /\ fileRef = null /\ pixelations = << >>
  /\ IdleUtil /\ IdleMap /\ IdleHook /\ IdleRender
  /\ IdleHex /\ IdleShader /\ IdleFav
AppNext ==
  \/ \E s \in AppInputs : setInputValue(s)
  \/ FireTimer
  \/ \E id \in 1..Len(fetches) :
       \E pixels \in FetchOutcomes(fetches[id].url) : FetchSettle(id, pixels)
  \/ \E file \in Files : handleFile(file)
  \/ toggleInvert
  \/ clear
  \/ \E id \in 1..Len(pixelations) : PixelateResolve(id)
  \/ \E id \in 1..Len(pixelations) : PixelateReject(id)
\* setTimeout: a timer that is not cleared fires
AppSpec == AppInit /\ [][AppNext]_vars /\ WF_vars(FireTimer)

\* a call of fetchFaviconPixels
FavInit ==
  /\ \E u \in FavInputs : fav = [urlString |-> u, pc |-> "called", result |-> null]
  /\ attempts = << >>
  /\ IdleUtil /\ IdleMap /\ IdleHook /\ IdleRender
  /\ IdleApp /\ IdleHex /\ IdleShader
FavNext ==
  \/ CallFetch
  \/ \E i \in 1..Len(attempts) : \E tainted \in BOOLEAN : ImgLoad(i, tainted)
  \/ \E i \in 1..Len(attempts) : ImgError(i)
  \/ \E i \in 1..Len(attempts) : Timeout(i)
\* the call runs to its first await, and an armed timer fires
FavSpec ==
  /\ FavInit /\ [][FavNext]_vars
  /\ WF_vars(CallFetch)
  /\ WF_vars(\E i \in 1..Len(attempts) : Timeout(i))

\* useHashHex
HexInit ==
  /\ impl = "hooks"
  /\ phase = "new"
  /\ input \in Inputs
  /\ config = null
  /\ effects = << >>
  /\ live = 0
  /\ lastSet = NoSet
  /\ mapLog = << >>
  /\ hex = << >>
  /\ IdleUtil /\ IdleMap /\ IdleRender
  /\ IdleApp /\ IdleShader /\ IdleFav
HexNext ==
  \/ HexMount
  \/ \E s \in Inputs : HexSetInput(s)
  \/ HexUnmount
  \/ \E id \in 1..Len(effects) : HexResolve(id)
  \/ \E id \in 1..Len(effects) : HexReject(id)
HexSpec == HexInit /\ [][HexNext]_vars

\* the 3D renderer on the configuration of a digest: "hello world" with
\* every value of byte 8 (patternType) and a few of byte 12 (borderStyle)
ShaderInit ==
  /\ \E a \in Bytes, b \in { 0, 63, 64, 128, 191, 192, 255 } :
       digest = With(hashString(Shello), 8, a, 12, b)
  /\ mapped = null
  /\ uniforms = null /\ shade = NoShade
  /\ IdleTwin /\ IdleUtil /\ IdleHook /\ IdleRender
  /\ IdleApp /\ IdleHex /\ IdleFav
ShaderNext == CallMap \/ RenderFingerprint \/ RunShader
ShaderSpec == ShaderInit /\ [][ShaderNext]_vars

\* ------------------------------------------------------------------------
\* Properties

Abs(x) == IF x < 0 THEN -x ELSE x

IndexDone == call.fn = "byteToIndex" /\ call.done
FloatDone == call.fn = "byteToFloat" /\ call.done
Mapped == mapped # null

C2_LastInputWins ==
  lastSet.by # 0 =>
    /\ lastSet.by = lastSet.live
    /\ lastSet.for = lastSet.input

\* a superseded digest completed while the hook shows another input, and
\* the config is not the one of the superseded input
C2_Witness ==
  \E id \in 1..Len(effects) :
    /\ effects[id].cancelled
    /\ effects[id].promise = "fulfilled"
    /\ ~Blank(effects[id].input)
    /\ phase = "mounted"
    /\ input # effects[id].input
    /\ config # mapHashToConfig(hashString(effects[id].input))

\* C3: byteToIndex(byte, count) is floor((byte/256)*count), the integer r
\* with r <= byte*count/256 < r+1, and lies in 0..count-1.
C3_IndexFloorInRange ==
  IndexDone =>
    /\ call.ret * ByteCount <= call.byte * call.count
    /\ call.byte * call.count < (call.ret + 1) * ByteCount
    /\ call.ret \in 0..(call.count - 1)

C3_Witness == IndexDone /\ call.byte = ByteMax /\ call.count = 8 /\ call.ret = 7

\* C4 as stated: for every count >= 1, byteToIndex(255, count) = count-1
\* and byteToIndex(0, count) = 0.
C4_TopIndexAnyCount ==
  IndexDone =>
    /\ call.byte = ByteMax => call.ret = call.count - 1
    /\ call.byte = 0 => call.ret = 0

\* C4 amended: for every count in 1..256, byteToIndex(255, count) = count-1;
\* for every count >= 1, byteToIndex(0, count) = 0; byteToIndex(0, 8) = 0
\* and byteToIndex(255, 8) = 7.
C4_TopIndex ==
  IndexDone =>
    /\ (call.byte = ByteMax /\ call.count <= ByteCount) => call.ret = call.count - 1
    /\ call.byte = 0 => call.ret = 0
    /\ (call.byte = ByteMax /\ call.count = 8) => call.ret = 7

C4_Witness ==
  IndexDone /\ call.byte = ByteMax /\ call.count = ByteCount /\ call.ret = ByteMax

C6_HueHalfOpen ==
  Mapped => 0 <= mapped.primaryHue /\ mapped.primaryHue < Dec(36000)

\* C6 amended: primaryHue lies in the closed interval [0, 360], and is 360
\* exactly when byte 0 is 255.
C6_HueClosed ==
  Mapped =>
    /\ 0 <= mapped.primaryHue /\ mapped.primaryHue <= Dec(36000)
    /\ mapped.primaryHue = Dec(36000) <=> digest[0] = ByteMax

C6_Witness == Mapped /\ digest[0] = ByteMax /\ mapped.primaryHue = Dec(36000)

C9_DiscreteAxesDefined ==
  Mapped =>
    /\ mapped.patternFrequency \in 1..16
    /\ mapped.displacementFrequency \in 1..8
    /\ mapped.geometryClass \in
         { "sphere", "torus", "icosahedron", "octahedron", "torusKnot",
           "dodecahedron", "tetrahedron", "cone" }
    /\ mapped.patternType \in
         { "voronoi", "noise", "rings", "grid", "hexagonal", "spiral",
           "stripes", "dots" }
    /\ mapped.borderStyle \in { "none", "thin", "thick", "glow" }

C9_Witness ==
  /\ Mapped /\ digest[6] = ByteMax /\ mapped.geometryClass = "cone"

\* C10: rotationSpeed lies in [-0.8, 0.8], is positive exactly when byte 15
\* is below 128 and negative otherwise, and its magnitude is
\* 0.1 + (byte 14 / 255) * 0.7, whatever byte 15 is.
C10_RotationSpeed ==
  Mapped =>
    /\ -Dec(80) <= mapped.rotationSpeed /\ mapped.rotationSpeed <= Dec(80)
    /\ mapped.rotationSpeed > 0 <=> digest[15] < 128
    /\ mapped.rotationSpeed < 0 <=> digest[15] >= 128
    /\ Abs(mapped.rotationSpeed) = Dec(10) + digest[14] * 70

C10_Witness ==
  /\ Mapped /\ digest[15] = 128 /\ digest[14] = ByteMax
  /\ mapped.rotationSpeed = -Dec(80)


\* C11: each axis depends only on its source bytes: two digests that agree
\* on the source bytes of an axis give the axis the same value, and two
\* digests that differ only in bytes 5, 7, 9, 17 and 24..31 are mapped, both
\* of them, to one and the same configuration.
SourceBytes ==
  [ primaryHue |-> { 0 }, primarySaturation |-> { 1 },
    primaryLightness |-> { 2 }, secondaryHue |-> { 0, 3 },
    secondaryLightness |-> { 4 }, geometryClass |-> { 6 },
    patternType |-> { 8 }, patternFrequency |-> { 10 },
    patternDensity |-> { 11 }, borderStyle |-> { 12 },
    borderWidth |-> { 13 }, rotationSpeed |-> { 14, 15 },
    rotationAxis |-> { 15 }, particleDensity |-> { 16 },
    displacementAmplitude |-> { 18 }, displacementFrequency |-> { 19 },
    pulseRate |-> { 20 }, shimmerIntensity |-> { 21 },
    colorShift |-> { 22 }, breatheScale |-> { 23 } ]
ReservedBytes == { 5, 7, 9, 17, 24, 25, 26, 27, 28, 29, 30, 31 }
AgreeOn(S) == \A k \in S : digest[k] = twin[k]
BothMapped == mapped # null /\ mappedTwin # null
C11_AxisSources ==
  BothMapped =>
    /\ \A axis \in DOMAIN SourceBytes :
         AgreeOn(SourceBytes[axis]) => mapped[axis] = mappedTwin[axis]
    /\ AgreeOn((0..(DigestLength - 1)) \ ReservedBytes) => mapped = mappedTwin
C11_Witness ==
  /\ BothMapped
  /\ digest # twin
  /\ AgreeOn((0..(DigestLength - 1)) \ ReservedBytes)
  /\ \A k \in ReservedBytes : digest[k] # twin[k]
  /\ mapped = mappedTwin

\* C12: the configuration mapHashToConfig returns for a digest has a
\* reputationScore field, and it is an integer from 0 to 100.
C12_ReputationScore ==
  Mapped =>
    /\ "reputationScore" \in DOMAIN mapped
    /\ mapped.reputationScore \in 0..100

\* C13: mapHashToConfig on a byte array whose length is not 32 returns no
\* configuration: the call ends in an InvalidDigestLength error.
InvalidDigestLength == [error |-> "InvalidDigestLength"]
C13_InvalidDigestLength ==
  (mapped # null /\ Length(digest) # DigestLength) =>
    mapped = InvalidDigestLength

\* C14: a blank input gives a null config: once the effect of a blank
\* input has settled (at once in App.tsx, when its promise resolves in
\* hooks/useFingerprint.ts) config is null, and a null config stays null
\* from step to step while the input is blank, also when the digest of an
\* earlier input completes.
SettledBlank ==
  /\ phase = "mounted" /\ Blank(input)
  /\ live = 0 \/ effects[live].promise # "pending"
C14_BlankIsNull ==
  /\ [](SettledBlank => config = null)
  /\ [][(phase = "mounted" /\ Blank(input) /\ Blank(input') /\ config = null)
          => config' = null]_vars
C14_Witness ==
  /\ SettledBlank /\ config = null
  /\ Len(mapLog) > 0
  /\ \E id \in 1..Len(effects) :
       /\ ~Blank(effects[id].input)
       /\ effects[id].cancelled
       /\ effects[id].promise = "fulfilled"

\* C15: while the input goes from one non-blank string to another, config
\* changes in one way only: the live effect commits the configuration of
\* the current input.  Every other step leaves config as it was, so a
\* committed configuration is never replaced by null in between.
C15_ConfigKept ==
  [][(phase = "mounted" /\ phase' = "mounted" /\ ~Blank(input) /\ ~Blank(input'))
       => \/ config' = config
          \/ /\ input' = input
             /\ config' = mapHashToConfig(hashString(input))]_vars
C15_Witness ==
  /\ phase = "mounted" /\ ~Blank(input)
  /\ live # 0 /\ effects[live].promise = "pending"
  /\ ~Blank(lastSet.for) /\ lastSet.for # input
  /\ config = mapHashToConfig(hashString(lastSet.for))

HashSine ==
  sine[<< 0, hcall.cx * 255000 + hcall.seed * 31 + 73 * 255000,
             hcall.cy * 255000 + hcall.seed2 * 47 + 119 * 255000 >>]
RendersOf(component) ==
  { i \in 1..Len(renders) : renders[i].by = component }
IsAccentOut(out) == out # null /\ out.kind = "accent"
OwnHash == cellHash(cell.cx * 10, cell.cy * 10, seed1(gcfg), seed2(gcfg))
SecondHash ==
  cellHash(cell.cx * 10 + 431, cell.cy * 10 + 679, seed1(gcfg), seed2(gcfg))
ThirdHash ==
  cellHash(cell.cx * 10 + 897, cell.cy * 10 + 713, seed1(gcfg), seed2(gcfg))
InCorner == cell.cx < 3 /\ cell.cy < 3
AtCentre == cell.cx = 4 /\ cell.cy = 4

\* C18 as stated: FingerprintSquares draws a cell as an accent exactly when
\* its hash is above 0.95, with the opacity from the second hash and the
\* delay from the third.
C18_AccentIffHash ==
  \A i \in RendersOf("FingerprintSquares") :
    LET out == renders[i].out
    IN /\ IsAccentOut(out) <=> OwnHash > 9500
       /\ IsAccentOut(out) =>
            /\ out.opacity = 3500 + (SecondHash * 6500) \div Unit
            /\ out.delay = (ThirdHash * 2 + 50) \div 100

\* C18: FingerprintSquares draws no cell of the top-left 3 x 3 corner; it
\* draws the centre cell (4, 4) as an accent whatever its hash, with
\* opacity 0.93 and the delay from the third hash; every other cell is an
\* accent exactly when its hash is above 0.95, with opacity 0.35 + 0.65 *
\* second hash and the delay from the third hash.  FingerprintMini does the
\* same for the centre; its other accents have opacity 0.5 + 0.4 * second
\* hash and no animation.
C18_Accent ==
  /\ \A i \in RendersOf("FingerprintSquares") :
       LET out == renders[i].out
       IN IF InCorner THEN out = null
          ELSE IF AtCentre
            THEN /\ IsAccentOut(out) /\ out.opacity = 9300
                 /\ out.delay = (ThirdHash * 2 + 50) \div 100
          ELSE /\ IsAccentOut(out) <=> OwnHash > 9500
               /\ IsAccentOut(out) =>
                    /\ out.opacity = 3500 + (SecondHash * 6500) \div Unit
                    /\ out.delay = (ThirdHash * 2 + 50) \div 100
  /\ \A i \in RendersOf("FingerprintMini") :
       LET out == renders[i].out
       IN IF AtCentre
            THEN /\ IsAccentOut(out) /\ out.opacity = 9300
                 /\ out.delay = (ThirdHash * 2 + 50) \div 100
          ELSE /\ IsAccentOut(out) <=> OwnHash > 9500
               /\ IsAccentOut(out) =>
                    /\ out.opacity = 5000 + (SecondHash * 4000) \div Unit
                    /\ "delay" \notin DOMAIN out
C18_Witness ==
  /\ ~InCorner /\ ~AtCentre
  /\ OwnHash > 9500
  /\ \E i \in RendersOf("FingerprintSquares") :
       /\ IsAccentOut(renders[i].out)
       /\ renders[i].out.opacity > 3500
       /\ renders[i].out.delay = 200

\* C19: for every cell of the grid and every patternFrequency 1..16
\* cellPattern is in [0, 1], and so is the fill value
\* min(1, pattern * 0.65 + grain * 0.45) for a grain in [0, 1): for the
\* cell of the state with sample grains, and in every pattern cell rendered.
C19_PatternAndFillInRange ==
  /\ cell.cx \in 0..8 /\ cell.cy \in 0..8 /\ gcfg.patternFrequency \in 1..16
  /\ LET pattern == cellPattern(cell.cx, cell.cy, gcfg.patternFrequency)
     IN /\ pattern >= 0 /\ pattern <= Unit
        /\ \A grain \in { 0, 1, 5000, 7778, 9999 } :
             /\ fillVal(pattern, grain) >= 0
             /\ fillVal(pattern, grain) <= Unit
  /\ \A i \in 1..Len(renders) :
       LET out == renders[i].out
       IN (out # null /\ out.kind = "pattern") =>
            /\ out.pattern >= 0 /\ out.pattern <= Unit
            /\ out.grain >= 0 /\ out.grain < Unit
            /\ out.fillVal >= 0 /\ out.fillVal <= Unit
C19_Witness ==
  /\ gcfg.patternFrequency = 16
  /\ \E i \in 1..Len(renders) :
       /\ renders[i].out # null
       /\ renders[i].out.kind = "pattern"
       /\ renders[i].out.pattern = Unit
       /\ renders[i].out.grain = 9999
       /\ renders[i].out.fillVal = Unit

AllSettledWell ==
  /\ phase = "mounted"
  /\ \A id \in 1..Len(effects) : effects[id].promise \in { "fulfilled", "none" }
C22_SettledConfig ==
  AllSettledWell =>
    config = IF Blank(input) THEN null ELSE mapHashToConfig(hashString(input))
C22_Witness ==
  /\ AllSettledWell
  /\ Len(effects) >= 3
  /\ ~Blank(input)
  /\ config = mapHashToConfig(hashString(input))
  /\ \E id \in 1..Len(effects) :
       /\ ~Blank(effects[id].input) /\ effects[id].input # input
       /\ effects[id].cancelled /\ effects[id].promise = "fulfilled"

\* C24: for a cell of the central 3 x 3, FingerprintMini and
\* FingerprintSquares return the same kind of element (an accent for the
\* centre, an accent for a hash above 0.95, a pattern fill otherwise) and,
\* for a pattern fill, the same hsl fill.
C24_MiniMatchesSquares ==
  \A i \in RendersOf("FingerprintMini") :
    \A j \in RendersOf("FingerprintSquares") :
      /\ renders[j].out # null
      /\ renders[i].out.kind = renders[j].out.kind
      /\ renders[i].out.kind = "accent" => (AtCentre \/ OwnHash > 9500)
      /\ renders[i].out.kind = "pattern" =>
           /\ ~AtCentre /\ OwnHash <= 9500
           /\ renders[i].out.fill = renders[j].out.fill
C24_Witness ==
  /\ ~AtCentre
  /\ \E i \in RendersOf("FingerprintMini") :
       \E j \in RendersOf("FingerprintSquares") :
         /\ renders[i].out.kind = "pattern"
         /\ renders[j].out.kind = "pattern"
         /\ renders[i].out.fill = renders[j].out.fill
         /\ renders[i].out.fill.lightness < 280

\* C30: every cell outside the corner other than the centre cell has a
\* radius of at least 2/9, above 0.22 (exactly: its squared distance from
\* the centre, in eighty-firsts, is at least 4 > 81 * 0.22^2; in the
\* truncating arithmetic of the model: above 0.22), so its hub
\* is 0 and cellPattern is min(1, rings + depth).  The hub is 1 up to a
\* radius of 0.12 and below 1 from there on.
C30_HubInert ==
  /\ (~InCorner /\ ~AtCentre) =>
       /\ ((2 * cell.cx + 1 - 9) * (2 * cell.cx + 1 - 9)
            + (2 * cell.cy + 1 - 9) * (2 * cell.cy + 1 - 9)) * 10000 > 81 * 22 * 22
       /\ cellRadius(cell.cx, cell.cy) > 2200
       /\ hub(cellRadius(cell.cx, cell.cy)) = 0
       /\ cellPattern(cell.cx, cell.cy, gcfg.patternFrequency)
            = ringsWithDepth(cellRadius(cell.cx, cell.cy), gcfg.patternFrequency)
       /\ \A i \in 1..Len(renders) :
            (renders[i].out # null /\ renders[i].out.kind = "pattern") =>
              renders[i].out.pattern
                = ringsWithDepth(cellRadius(cell.cx, cell.cy), gcfg.patternFrequency)
  /\ AtCentre => hub(cellRadius(cell.cx, cell.cy)) = Unit
  /\ \A r \in { 0, 600, 1200 } : hub(r) = Unit
  /\ \A r \in { 1300, 1700, 2100 } : hub(r) > 0 /\ hub(r) < Unit
  /\ \A r \in { 2200, 2222, 5000, 12571 } : hub(r) = 0
C30_Witness ==
  /\ cell = [cx |-> 3, cy |-> 4]
  /\ cellRadius(cell.cx, cell.cy) = 2222
  /\ \E i \in 1..Len(renders) :
       /\ renders[i].out.kind = "pattern"
       /\ renders[i].out.pattern > 0

\* C29: when every digest request of useHashHex has settled (the hook is
\* mounted, no request pending, none failed), hex is the hex of the
\* digest of the current input if the input is non-blank and the empty
\* string if it is blank.
HexSettled ==
  /\ phase = "mounted"
  /\ \A id \in 1..Len(effects) : effects[id].promise \in { "fulfilled", "none" }
C29_HexOfCurrentInput ==
  HexSettled =>
    hex = IF Blank(input) THEN << >> ELSE toHex(hashString(input))

\* C25: for the configuration the mapper returns for a digest, the uniform
\* uPatternType is the index (from 0) of its patternType in PATTERN_TYPES
\* and uBorderStyle that of its borderStyle in BORDER_STYLES, and the
\* shader's getPattern branch for that integer calls the pattern function
\* of that name (snoise2 for noise, hex for hexagonal).
ShaderFunctionOf(patternType) ==
  CASE patternType = "noise" -> "snoise2"
    [] patternType = "hexagonal" -> "hex"
    [] OTHER -> patternType
IndexIn(list, x) == CHOOSE i \in 0..(Len(list) - 1) : list[i + 1] = x
C25_SamePatternTaxonomy ==
  /\ uniforms # null =>
       /\ mapped.patternType \in { PATTERN_TYPES[i] : i \in 1..Len(PATTERN_TYPES) }
       /\ uniforms.uPatternType = IndexIn(PATTERN_TYPES, mapped.patternType)
       /\ uniforms.uPatternType \in 0..7
       /\ mapped.borderStyle \in { BORDER_STYLES[i] : i \in 1..Len(BORDER_STYLES) }
       /\ uniforms.uBorderStyle = IndexIn(BORDER_STYLES, mapped.borderStyle)
  /\ shade # NoShade =>
       /\ shade.pattern = ShaderFunctionOf(mapped.patternType)
       /\ shade.border.branch =
            CASE mapped.borderStyle = "none" -> "none"
              [] mapped.borderStyle = "glow" -> "glow"
              [] OTHER -> "border"
       /\ shade.border.widthFactor =
            CASE mapped.borderStyle = "thin" -> 1
              [] mapped.borderStyle = "thick" -> 2
              [] OTHER -> 0
C25_Witness ==
  /\ shade # NoShade
  /\ mapped.patternType = "hexagonal"
  /\ uniforms.uPatternType = 4
  /\ shade.pattern = "hex"
  /\ mapped.borderStyle = "thick"
  /\ uniforms.uBorderStyle = 2

\* C26: a call of fetchFaviconPixels never rejects and returns in the end.
\* It returns null without trying a service when the URL does not parse or
\* has an empty hostname; otherwise it tries the three services in their
\* order, the next one only after the one before resolved with null, and
\* returns the first non-null result, or null after the third.  Each
\* attempt resolves once, resuming the caller once, and a firing timeout
\* resolves it with null if the image has not settled it before.
FavParsed == ~URL(fav.urlString).throws /\ URL(fav.urlString).hostname # ""
FavSafe ==
  /\ fav.pc \in { "called", "awaiting", "returned" }
  /\ Len(attempts) <= 3
  /\ ~FavParsed => attempts = << >> /\ fav.pc # "awaiting" /\ fav.result = null
  /\ \A i \in 1..Len(attempts) :
       /\ attempts[i].url = services(URL(fav.urlString).hostname)[i]
       /\ attempts[i].resumed = IF attempts[i].settled THEN 1 ELSE 0
       /\ ~attempts[i].settled => attempts[i].timeout = "armed" /\ attempts[i].img = "loading"
       /\ attempts[i].timeout = "fired" => attempts[i].settled /\ attempts[i].value = null
       /\ i < Len(attempts) => attempts[i].settled /\ attempts[i].value = null
  /\ fav.pc = "awaiting" =>
       /\ attempts # << >>
       /\ ~attempts[Len(attempts)].settled
  /\ (fav.pc = "returned" /\ FavParsed) =>
       /\ attempts # << >>
       /\ attempts[Len(attempts)].settled
       /\ fav.result = attempts[Len(attempts)].value
       /\ fav.result = null => Len(attempts) = 3
       /\ fav.result # null =>
            fav.result = readPixelsFromImage(FaviconImage(attempts[Len(attempts)].url), FALSE)
C26_FetchSettles == []FavSafe /\ <>(fav.pc = "returned")
\* the second service's favicon was returned after the first attempt timed
\* out, and the first image loaded afterwards
C26_Witness ==
  /\ fav.pc = "returned"
  /\ Len(attempts) = 2
  /\ attempts[1].timeout = "fired" /\ attempts[1].img = "loaded"
  /\ attempts[1].resumed = 1
  /\ fav.result = readPixelsFromImage(FaviconImage(services("mcp.example.com")[2]), FALSE)

\* the callback of favicon fetch id runs in this step
Settling(id) ==
  /\ fetches[id].promise = "pending"
  /\ fetches'[id].promise = "fulfilled"

\* C21: while the logo is an uploaded one (a file is held and logoSource is
\* "manual"), no completion of a favicon fetch changes logoPixels or
\* logoSource, whenever the fetch was started.
C21_ManualKept ==
  [][(fileRef # null /\ logoSource = "manual"
        /\ \E id \in 1..Len(fetches) : Settling(id))
       => (logoPixels' = logoPixels /\ logoSource' = logoSource)]_vars

\* C27: the completion of a favicon fetch superseded by a change of
\* debouncedInput sets none of logoPixels, rawAutoPixels, logoSource and
\* faviconLoading, and faviconLoading is true only while the fetch of the
\* current effect is in flight.
C27_SupersededDiscarded ==
  /\ [](faviconLoading =>
          /\ liveFetch # 0
          /\ fetches[liveFetch].promise = "pending"
          /\ ~fetches[liveFetch].cancelled
          /\ fetches[liveFetch].url = trim(debouncedInput))
  /\ [][\A id \in 1..Len(fetches) :
          (fetches[id].cancelled /\ Settling(id)) =>
            UNCHANGED << logoPixels, rawAutoPixels, logoSource, faviconLoading >>]_vars
\* a superseded fetch has completed while the fetch for the current input
\* is in flight, and nothing of it shows
C27_Witness ==
  /\ Len(fetches) = 2
  /\ fetches[1].cancelled /\ fetches[1].promise = "fulfilled"
  /\ liveFetch = 2 /\ fetches[2].promise = "pending"
  /\ faviconLoading
  /\ logoPixels = null /\ rawAutoPixels = null /\ logoSource = "null"

\* C23: debouncedInput only takes values inputValue held, and only the
\* value inputValue holds when the timer fires: a pending timer is always
\* the one of the latest inputValue, so a value replaced before its timer
\* fired never becomes debouncedInput.  Once no timer is pending
\* debouncedInput is inputValue, and in the end it stays so.
C23_Debounced ==
  /\ [](/\ \E k \in 1..Len(held) : debouncedInput = held[k]
        /\ inputValue = held[Len(held)]
        /\ timer.pending => timer.value = inputValue
        /\ ~timer.pending => debouncedInput = inputValue)
  /\ [][debouncedInput' # debouncedInput =>
          (debouncedInput' = inputValue /\ inputValue' = inputValue)]_vars
  /\ <>[](debouncedInput = inputValue)
\* the second of three values was replaced within the window: no favicon
\* was ever fetched for it, and the third is the debounced input
C23_Witness ==
  /\ held = << U0, Ua, N7 >>
  /\ debouncedInput = N7 /\ ~timer.pending
  /\ \A id \in 1..Len(fetches) : fetches[id].url # trim(Ua)

\* C28: when no pixelateLogo call is pending (and none failed), the pixels
\* shown for the uploaded file are its inverted rendering exactly when the
\* inverted flag is true.
AllPixelated ==
  /\ pixelations # << >>
  /\ \A id \in 1..Len(pixelations) : pixelations[id].promise = "fulfilled"
C28_InvertedMatchesFlag ==
  (AllPixelated /\ fileRef # null /\ logoSource = "manual") =>
    logoPixels = readPixelsFromImage(FileImage(fileRef), inverted)
====
